---- MODULE Spec2Model ----
(***************************************************************************)
(* A model of the FaceIdentifier engine of src/face-identifier.js: the     *)
(* engine object (options, isInitialized, faceDescriptors, faceHashes),    *)
(* the caller's stored-face list, and the calls in flight on the engine.   *)
(* An async method suspends only at its awaits, so every action below is   *)
(* one synchronous segment of a method: from a call, or from the           *)
(* resolution of an awaited promise, to the next await or to the return.   *)
(*                                                                         *)
(* Numbers.  Descriptor components are integers, in eighths: these are     *)
(* floats the code holds exactly, in single and in double precision.       *)
(* Confidences are integers in hundredths: k stands for the double the     *)
(* literal k/100 denotes.  A similarity, and the matchThreshold it is      *)
(* compared with, is the double itself: Zero, or the record [m, e] of the  *)
(* double m * 2^e, where m, 2^52 <= m < 2^53, is written in digits to the  *)
(* base Limb, the lowest first.  The square roots, the product and the     *)
(* quotient of _cosineSimilarity are rounded as the code rounds them.      *)
(***************************************************************************)
EXTENDS Integers, Sequences, FiniteSets, TLC

VARIABLES
    options,          \* this.options
    isInitialized,    \* this.isInitialized
    faceDescriptors,  \* this.faceDescriptors
    faceHashes,       \* this.faceHashes
    netsLoaded,       \* the faceapi.nets whose weights are loaded
    storedFaces,      \* the caller's array of stored faces
    frames,           \* per caller: the call it has in flight
    overlapped        \* the callers beside whose call another call has run

vars == <<options, isInitialized, faceDescriptors, faceHashes, netsLoaded,
          storedFaces, frames, overlapped>>

engine == <<options, isInitialized, faceDescriptors, faceHashes>>

-----------------------------------------------------------------------------
(* Arithmetic helpers *)

\* The value 1.0 of a confidence.
One == 100

Min(a, b) == IF a <= b THEN a ELSE b

Max(a, b) == IF a >= b THEN a ELSE b

\* Array.prototype.slice(start, end): a negative index counts from the end.
SliceIndex(k, len) == IF k < 0 THEN Max(len + k, 0) ELSE Min(k, len)

Slice(s, start, end) ==
    LET from == SliceIndex(start, Len(s))
        to   == SliceIndex(end, Len(s))
    IN  IF to <= from THEN <<>> ELSE SubSeq(s, from + 1, to)

\* Sums are taken by halves.  The code's loops add one term after the other;
\* the terms here are integers, in units in which the doubles of the code are
\* exact, so the order does not matter.

\* values.reduce((a, b) => a + b, 0), over the positions lo..hi.
RECURSIVE SumRange(_, _, _)
SumRange(s, lo, hi) ==
    IF lo > hi THEN 0
    ELSE IF lo = hi THEN s[lo]
    ELSE SumRange(s, lo, (lo + hi) \div 2) + SumRange(s, (lo + hi) \div 2 + 1, hi)

SumSeq(s) == SumRange(s, 1, Len(s))

-----------------------------------------------------------------------------
(* Double-precision arithmetic, round to nearest, ties to even *)

\* Natural numbers of any size, as sequences of digits to the base Limb, which
\* is 2^LimbBits, the lowest first and the highest not 0.  The base is such
\* that a column of a product is held in 32 bits.
LimbBits == 13

Limb == 2 ^ LimbBits

RECURSIVE BigTrim(_)
BigTrim(x) ==
    IF Len(x) > 0 /\ x[Len(x)] = 0 THEN BigTrim(SubSeq(x, 1, Len(x) - 1)) ELSE x

BigOf(n) == BigTrim(<< n % Limb, (n \div Limb) % Limb, n \div (Limb * Limb) >>)

BigLimb(x, i) == IF i <= Len(x) THEN x[i] ELSE 0

RECURSIVE BigCompareFrom(_, _, _)
BigCompareFrom(x, y, i) ==
    IF i = 0 THEN 0
    ELSE IF x[i] # y[i] THEN (IF x[i] < y[i] THEN -1 ELSE 1)
    ELSE BigCompareFrom(x, y, i - 1)

BigCompare(x, y) ==
    IF Len(x) # Len(y) THEN (IF Len(x) < Len(y) THEN -1 ELSE 1)
    ELSE BigCompareFrom(x, y, Len(x))

\* The digits of the number whose columns, not yet below Limb, are cols.
RECURSIVE BigCarry(_, _, _)
BigCarry(cols, i, carry) ==
    IF i > Len(cols)
    THEN (IF carry = 0 THEN <<>>
          ELSE << carry % Limb >> \o BigCarry(cols, i, carry \div Limb))
    ELSE LET col == cols[i] + carry
         IN  << col % Limb >> \o BigCarry(cols, i + 1, col \div Limb)

BigAdd(x, y) ==
    LET n == IF Len(x) >= Len(y) THEN Len(x) ELSE Len(y)
    IN  BigTrim(BigCarry([i \in 1..n |-> BigLimb(x, i) + BigLimb(y, i)], 1, 0))

\* The sum of x[i] * y[k + 1 - i] for i in lo..hi.
RECURSIVE BigColumn(_, _, _, _, _)
BigColumn(x, y, k, lo, hi) ==
    IF lo > hi THEN 0
    ELSE IF lo = hi THEN x[lo] * y[k + 1 - lo]
    ELSE BigColumn(x, y, k, lo, (lo + hi) \div 2)
            + BigColumn(x, y, k, (lo + hi) \div 2 + 1, hi)

BigTimes(x, y) ==
    IF Len(x) = 0 \/ Len(y) = 0 THEN <<>>
    ELSE BigTrim(BigCarry(
            [k \in 1..(Len(x) + Len(y) - 1) |->
                BigColumn(x, y, k, Max(1, k + 1 - Len(y)), Min(Len(x), k))],
            1, 0))

BigIsOdd(x) == Len(x) > 0 /\ x[1] % 2 = 1

BigPow2(k) ==
    [i \in 1..(k \div LimbBits + 1) |->
        IF i = k \div LimbBits + 1 THEN 2 ^ (k % LimbBits) ELSE 0]

RECURSIVE Log2(_)
Log2(n) == IF n < 2 THEN 0 ELSE 1 + Log2(n \div 2)

\* The number of binary digits of x.
BigBits(x) ==
    IF Len(x) = 0 THEN 0 ELSE LimbBits * (Len(x) - 1) + Log2(x[Len(x)]) + 1

\* The binary digit k of x, digit 0 being the lowest.
BigBit(x, k) ==
    (BigLimb(x, k \div LimbBits + 1) \div (2 ^ (k % LimbBits))) % 2

\* x % 2^k is not 0.
BigLowBits(x, k) ==
    \E i \in 1..Min(Len(x), k \div LimbBits + 1) :
        IF i <= k \div LimbBits THEN x[i] # 0
        ELSE x[i] % (2 ^ (k % LimbBits)) # 0

\* x \div 2^k.
BigShiftRight(x, k) ==
    BigTrim([i \in 1..(Len(x) - k \div LimbBits) |->
                (x[i + k \div LimbBits] \div (2 ^ (k % LimbBits)))
                    + (BigLimb(x, i + k \div LimbBits + 1) % (2 ^ (k % LimbBits)))
                        * (2 ^ (LimbBits - (k % LimbBits)))])

\* One step of a search for the largest q with c * c <= bound ("sqrt") or
\* c * a <= bound ("quot"): the bit is added to q if the bound allows it.
BigTry(kind, a, bound, q, bit) ==
    LET c == BigAdd(q, BigPow2(bit))
        v == IF kind = "sqrt" THEN BigTimes(c, c) ELSE BigTimes(c, a)
    IN  IF BigCompare(v, bound) <= 0 THEN c ELSE q

\* The bits hi down to lo tried in turn, the upper half before the lower.
RECURSIVE BigLargest(_, _, _, _, _, _)
BigLargest(kind, a, bound, q, hi, lo) ==
    IF hi = lo THEN BigTry(kind, a, bound, q, hi)
    ELSE LET mid   == (hi + lo + 1) \div 2
             upper == BigLargest(kind, a, bound, q, hi, mid)
         IN  IF Len(upper) >= 0
             THEN BigLargest(kind, a, bound, upper, mid - 1, lo)
             ELSE upper

\* Doubles: Zero, and above 0 [m, e], which is m * 2^e with 2^52 <= m < 2^53.
\* Each double has one such form, so that = on the forms is === on doubles.
Zero == [m |-> <<>>, e |-> 0]

Two53 == BigPow2(53)
Two52 == BigPow2(52)

\* m * 2^e with 2^52 <= m < 2^53, a round bit and a sticky bit below it:
\* the nearest double, the even one of two equally near.
Nearest(m, e, round, sticky) ==
    IF round /\ (sticky \/ BigIsOdd(m))
    THEN LET up == BigAdd(m, <<1>>)
         IN  IF BigCompare(up, Two53) >= 0 THEN [m |-> Two52, e |-> e + 1]
             ELSE [m |-> up, e |-> e]
    ELSE [m |-> m, e |-> e]

\* Round m * 2^e, with a round bit and a sticky bit below it, to 53 bits.
Round53(m, e, round, sticky) ==
    LET over == BigBits(m) - 53
    IN  IF over > 0
        THEN Nearest(BigShiftRight(m, over), e + over, BigBit(m, over - 1) = 1,
                     sticky \/ round \/ BigLowBits(m, over - 1))
        ELSE IF over < 0 /\ ~round /\ ~sticky
        THEN [m |-> BigTimes(m, BigPow2(-over)), e |-> e + over]
        ELSE Nearest(m, e, round, sticky)

RECURSIVE Log4(_)
Log4(n) == IF n < 4 THEN 0 ELSE 1 + Log4(n \div 4)

\* Math.sqrt(n) of an integer n > 0: the double nearest the root.
MathSqrt(n) ==
    LET t    == 53 - Log4(n)
        big  == BigTimes(BigOf(n), BigPow2(2 * t))
        root == BigLargest("sqrt", <<>>, big, <<>>, 53, 0)
    IN  Round53(root, -t, FALSE, BigCompare(BigTimes(root, root), big) # 0)

\* x * y of two doubles.
Times(x, y) == Round53(BigTimes(x.m, y.m), x.e + y.e, FALSE, FALSE)

\* n / y for an integer n > 0 and a double y > 0.
Over(n, y) ==
    LET big == BigTimes(BigOf(n), BigPow2(107))
        q   == BigLargest("quot", y.m, big, <<>>, 56 + Log2(n), 0)
    IN  Round53(q, -107 - y.e, FALSE, BigCompare(BigTimes(q, y.m), big) # 0)

\* The double an integer n > 0 is.
DoubleOf(n) == Round53(BigOf(n), 0, FALSE, FALSE)

\* The double the decimal literal k/100 denotes, for an integer k >= 0: the
\* double nearest k/100, which is what the division of k by 100 gives.
Literal(k) == IF k = 0 THEN Zero ELSE Over(k, DoubleOf(One))

\* -1, 0 or 1 as the double x is below, equal to or above the double y.
Compare(x, y) ==
    IF Len(x.m) = 0 \/ Len(y.m) = 0
    THEN (IF Len(x.m) > 0 THEN 1 ELSE IF Len(y.m) > 0 THEN -1 ELSE 0)
    ELSE IF x.e # y.e THEN (IF x.e < y.e THEN -1 ELSE 1)
    ELSE BigCompare(x.m, y.m)

\* x < y, x > y and x >= y of two doubles.
Less(x, y) == Compare(x, y) < 0

Greater(x, y) == Compare(x, y) > 0

AtLeast(x, y) == Compare(x, y) >= 0

-----------------------------------------------------------------------------
(* The constructor's defaults and the constants of the matching pipeline *)

DefaultMinConfidence == (3 * One) \div 10

DefaultMatchThreshold == Literal(60)

DefaultHashBits == 64

DefaultPadding == (2 * One) \div 10

\* _filterByHash: lists of at most this many faces are not filtered.
FilterCutover == 1000

\* _filterByHash: the default of its threshold parameter.
HammingThreshold == 8

\* identifyFace: the length of the candidates list.
TopCandidates == 5

\* detectFaces: the confidence of a detection whose score is falsy.
FallbackScore == One \div 2

\* _createSyntheticFace: the length of a synthetic descriptor.
SyntheticLength == 128

\* _createSyntheticFace: the confidence of a synthetic face.
SyntheticConfidence == (8 * One) \div 10

SyntheticBox == [x |-> 100, y |-> 100, width |-> 200, height |-> 200]

\* new FaceIdentifier(options): the defaults, overridden by the given options.
DefaultOptions ==
    [minConfidence  |-> DefaultMinConfidence,
     matchThreshold |-> DefaultMatchThreshold,
     hashBits       |-> DefaultHashBits,
     padding        |-> DefaultPadding]

Construct(given) ==
    [k \in DOMAIN DefaultOptions |->
        IF k \in DOMAIN given THEN given[k] ELSE DefaultOptions[k]]

-----------------------------------------------------------------------------
(* The private helpers of the matching pipeline *)

\* v >= avg, where avg = sum / bits is NaN for bits = 0 (and sum = 0).
GeAvg(v, sum, bits) ==
    IF bits > 0 THEN v * bits >= sum
    ELSE IF bits < 0 THEN v * bits <= sum
    ELSE FALSE

\* A hash of every component of the descriptor, whatever hashBits is.
_generateHash_AllOfDescriptor(opts, descriptor) ==
    LET sum == SumSeq(descriptor)
    IN  [i \in 1..Len(descriptor) |->
            IF GeAvg(descriptor[i], sum, Len(descriptor)) THEN "1" ELSE "0"]

_generateHash(opts, descriptor) ==
    LET bits   == Min(opts.hashBits, Len(descriptor))
        values == Slice(descriptor, 0, bits)
        sum    == SumSeq(values)
    IN  [i \in 1..Len(values) |-> IF GeAvg(values[i], sum, bits) THEN "1" ELSE "0"]

\* The positions lo..hi at which two hashes differ, counted.
RECURSIVE HammingRange(_, _, _, _)
HammingRange(hash1, hash2, lo, hi) ==
    IF lo > hi THEN 0
    ELSE IF lo = hi THEN (IF hash1[lo] # hash2[lo] THEN 1 ELSE 0)
    ELSE HammingRange(hash1, hash2, lo, (lo + hi) \div 2)
            + HammingRange(hash1, hash2, (lo + hi) \div 2 + 1, hi)

HammingLoop(hash1, hash2, len) == HammingRange(hash1, hash2, 1, len)

_hammingDistance(hash1, hash2) ==
    HammingLoop(hash1, hash2, Min(Len(hash1), Len(hash2)))

\* The sum of a[i] * b[i] over the positions lo..hi.
RECURSIVE DotRange(_, _, _, _)
DotRange(a, b, lo, hi) ==
    IF lo > hi THEN 0
    ELSE IF lo = hi THEN a[lo] * b[lo]
    ELSE DotRange(a, b, lo, (lo + hi) \div 2)
            + DotRange(a, b, (lo + hi) \div 2 + 1, hi)

DotLoop(a, b, len) == DotRange(a, b, 1, len)

\* Math.max(0, dot / (norm1 * norm2)) when neither norm is 0, and 0 when one
\* is: norm1q and norm2q are the sums of squares, whose roots the norms are.
\* The sums are in 64ths, which scales the roots by 8 and leaves the doubles
\* of the quotient as they are.
_cosineSimilarity(desc1, desc2) ==
    LET len    == Min(Len(desc1), Len(desc2))
        dot    == DotLoop(desc1, desc2, len)
        norm1q == DotLoop(desc1, desc1, len)
        norm2q == DotLoop(desc2, desc2, len)
    IN  IF norm1q = 0 \/ norm2q = 0 THEN Zero
        ELSE IF dot <= 0 THEN Zero
        ELSE Over(dot, Times(MathSqrt(norm1q), MathSqrt(norm2q)))

\* A filter that keeps only the faces strictly closer than the threshold.
_filterByHash_Strict(faces, queryHash, threshold) ==
    IF Len(faces) <= FilterCutover THEN faces
    ELSE SelectSeq(faces,
            LAMBDA face: _hammingDistance(face.hash, queryHash) < threshold)

_filterByHash(faces, queryHash, threshold) ==
    IF Len(faces) <= FilterCutover THEN faces
    ELSE SelectSeq(faces,
            LAMBDA face: _hammingDistance(face.hash, queryHash) <= threshold)

\* A synthetic face of the confidence a detection without a score is given.
_createSyntheticFace_FallbackScore(random) ==
    [descriptor |-> [i \in 1..SyntheticLength |-> random[i] + 2],
     box        |-> SyntheticBox,
     confidence |-> FallbackScore]

\* _createSyntheticFace: random holds what the 128 calls of Math.random
\* returned, in quarters; Math.random() * 0.5 + 0.25 is, in eighths, the
\* draw plus 2.
_createSyntheticFace(random) ==
    [descriptor |-> [i \in 1..SyntheticLength |-> random[i] + 2],
     box        |-> SyntheticBox,
     confidence |-> SyntheticConfidence]

-----------------------------------------------------------------------------
(* The descriptors the model draws from *)

\* Descriptors, named by their relation to QueryA.  Under the default
\* hashBits the hash of QueryA is 1111000000.
QueryA    == << 1, 1, 1, 1, 0, 0, 0, 0, 0, 0 >>
DescHalf  == << 1, 1, 0, 0, 1, 1, 0, 0, 0, 0 >>   \* cosine 0.5, hash distance 4
DescOrth  == << 0, 0, 0, 0, 1, 1, 1, 1, 0, 0 >>   \* cosine 0, hash distance 8
DescNine  == << 0, 0, 0, 0, 1, 1, 1, 1, 1, 0 >>   \* cosine 0, hash distance 9
DescFar   == << 3, 3, 3, 3, 4, 4, 4, 4, 4, 4 >>   \* cosine 0.522, hash distance 10
DescZero  == << 0, 0, 0, 0, 0, 0, 0, 0, 0, 0 >>   \* norm 0
DescNeg   == << -1, -1, -1, -1, 0, 0, 0, 0, 0, 0 >> \* cosine -1
\* A shorter descriptor.  The code finds it 0.9999999999999998 similar to
\* itself: Math.sqrt(5) * Math.sqrt(5) is 5.000000000000001.
DescShort == << 1, 2 >>
\* Descriptors named by their relation to QueryUnit, two of them within one
\* hundredth of each other.
QueryUnit == << 1, 0 >>
DescThree == << 3, 4 >>       \* cosine 0.6
DescNear  == << 301, 400 >>   \* cosine 0.6012776980498331
DescSmall == << 1, 200 >>     \* cosine 0.004999937501171851
\* A pair whose cosine is above 0.6, by less than the code's doubles tell:
\* the code finds the two 0.5999999999999999 similar.
QueryEdge == << 7974, 54, 1, 1999, 27, 15, 1, 0, 0, 0, 0 >>
DescEdge  == << 5085, 54, 24, 0, 0, 0, 0, 6459, 69, 14, 14 >>

\* What the 128 calls of Math.random in _createSyntheticFace may return, in
\* quarters: a pattern of ten draws, repeated.
RandomPatterns ==
    { << 0, 3, 2, 0, 3, 1, 3, 1, 2, 1 >>,
      << 3, 0, 3, 3, 0, 1, 1, 0, 1, 2 >> }

RandomDraws ==
    { [i \in 1..SyntheticLength |-> pat[((i - 1) % Len(pat)) + 1]] :
        pat \in RandomPatterns }

\* The descriptors the specifications draw.
Descriptors ==
    { QueryA, DescHalf, DescOrth, DescNine, DescFar, DescZero, DescNeg, DescShort,
      QueryUnit, DescThree, DescNear, DescSmall, QueryEdge, DescEdge }
    \cup { _createSyntheticFace(r).descriptor : r \in RandomDraws }

\* What _cosineSimilarity returns for each pair of them, computed once.
KnownSimilarity ==
    [desc1 \in Descriptors |->
        [desc2 \in Descriptors |-> _cosineSimilarity(desc1, desc2)]]

\* this._cosineSimilarity(desc1, desc2), as identifyFace and verifyFaces call
\* it: looked up for a pair of drawn descriptors, computed for any other.
Similarity(desc1, desc2) ==
    IF desc1 \in Descriptors /\ desc2 \in Descriptors
    THEN KnownSimilarity[desc1][desc2]
    ELSE _cosineSimilarity(desc1, desc2)

-----------------------------------------------------------------------------
(* detectFaces, registerFace, identifyFace, verifyFaces *)

\* JavaScript's null.
Null == [null |-> TRUE]

\* What detectFaces throws on an engine that is not initialized.
InitializeFirst == "Initialize engine first"

\* What initialize throws when a model fails to load.
FailedToLoad == "Face engine failed to load"

\* The three models initialize loads, in the order it loads them.
Nets == <<"tinyFaceDetector", "faceLandmark68Net", "faceRecognitionNet">>

\* detectFaces after its await: outcome is what the detector did, either
\* raised or returned a sequence of detections.
detectFacesResume(outcome, random) ==
    IF outcome.raised THEN << _createSyntheticFace(random) >>
    ELSE IF Len(outcome.detections) = 0
         THEN << _createSyntheticFace(random) >>
    ELSE [i \in 1..Len(outcome.detections) |->
            [descriptor |-> outcome.detections[i].descriptor,
             box        |-> outcome.detections[i].box,
             confidence |-> IF outcome.detections[i].score = 0 THEN FallbackScore
                            ELSE outcome.detections[i].score]]

\* registerFace after detectFaces: now is what Date.now() returns for the
\* face id, tag the random suffix, timestamp what Date.now() returns next.
registerFaceResume(opts, faces, now, tag, timestamp) ==
    LET face == faces[1]
    IN  [faceId     |-> <<"face", now, tag>>,
         descriptor |-> face.descriptor,
         hash       |-> _generateHash(opts, face.descriptor),
         confidence |-> face.confidence,
         timestamp  |-> timestamp]

\* identifyFace's loop over the candidates.  Each iteration pushes one object
\* onto matches, so that after the loop matches holds the object of every
\* candidate, in the candidates' order; and each iteration updates
\* bestSimilarity and bestMatch from the similarity it computed.

\* The object an iteration pushes onto matches.  new Float32Array(descriptor)
\* rounds each component to single precision, which leaves the components the
\* model draws (small integers) as they are.
MatchOf(currentFace, candidate) ==
    [faceId     |-> candidate.faceId,
     similarity |-> Similarity(currentFace.descriptor, candidate.descriptor),
     data       |-> candidate.userData]

\* A loop that tracks the best similarity only among the matches.
LoopBody_BestAmongMatches(opts, st, match) ==
    LET better == Greater(match.similarity, st.bestSimilarity)
                    /\ AtLeast(match.similarity, opts.matchThreshold)
    IN  [bestSimilarity |-> IF better THEN match.similarity ELSE st.bestSimilarity,
         bestMatch      |-> IF better THEN match ELSE st.bestMatch]

\* The update of bestSimilarity and bestMatch by the iteration that pushed match.
LoopBody(opts, st, match) ==
    [bestSimilarity |-> IF Greater(match.similarity, st.bestSimilarity)
                        THEN match.similarity ELSE st.bestSimilarity,
     bestMatch      |-> IF Greater(match.similarity, st.bestSimilarity)
                           /\ AtLeast(match.similarity, opts.matchThreshold)
                        THEN match ELSE st.bestMatch]

\* The iterations lo..hi of the loop, in order, from the loop state st.  The
\* range is run in two halves, the state after the first half being evaluated
\* before the second half starts from it.
RECURSIVE ForLoop(_, _, _, _, _)
ForLoop(opts, matches, lo, hi, st) ==
    IF lo > hi THEN st
    ELSE IF lo = hi THEN LoopBody(opts, st, matches[lo])
    ELSE LET mid  == (lo + hi) \div 2
             half == ForLoop(opts, matches, lo, mid, st)
         IN  IF AtLeast(half.bestSimilarity, Zero)
             THEN ForLoop(opts, matches, mid + 1, hi, half)
             ELSE half

\* A sort that is not stable: equal similarities end in reverse order.
SortMatches_Unstable(matches) ==
    SortSeq(matches, LAMBDA a, b: AtLeast(a.similarity, b.similarity))

\* matches.sort((a, b) => b.similarity - a.similarity): a stable sort.  The
\* difference of two doubles is below 0 exactly when b.similarity is below
\* a.similarity: a goes before b then, and not otherwise.
SortMatches(matches) ==
    SortSeq(matches, LAMBDA a, b: Less(b.similarity, a.similarity))

\* identifyFace on a non-empty list, after detectFaces: the object returned.
identifyFaceResult(opts, stored, faces) ==
    LET currentFace == faces[1]
        currentHash == _generateHash(opts, currentFace.descriptor)
        candidates  == _filterByHash(stored, currentHash, HammingThreshold)
        matches     == [i \in 1..Len(candidates) |->
                            MatchOf(currentFace, candidates[i])]
        fin == ForLoop(opts, matches, 1, Len(matches),
                       [bestSimilarity |-> Zero, bestMatch |-> Null])
    IN  [matchFound  |-> fin.bestMatch # Null,
         bestMatch   |-> fin.bestMatch,
         similarity  |-> fin.bestSimilarity,
         candidates  |-> Slice(SortMatches(matches), 0, TopCandidates),
         currentFace |-> [descriptor |-> currentFace.descriptor,
                          hash       |-> currentHash,
                          confidence |-> currentFace.confidence]]

\* An identifyFace that sorts the array it was given: for at most 1000 faces
\* the candidates are the caller's array itself.
identifyFaceResume_SortsCandidates(opts, stored, faces) ==
    [result      |-> identifyFaceResult(opts, stored, faces),
     storedFaces |->
        SortSeq(stored, LAMBDA a, b:
            Less(Similarity(faces[1].descriptor, b.descriptor),
                 Similarity(faces[1].descriptor, a.descriptor)))]

\* identifyFace after detectFaces: the object returned, and the caller's array
\* as the call leaves it (the loop only reads it; the sort is of matches).
identifyFaceResume(opts, stored, faces) ==
    [result      |-> identifyFaceResult(opts, stored, faces),
     storedFaces |-> stored]

\* identifyFace on an empty or absent list.
NoFaces == [matchFound |-> FALSE, bestMatch |-> Null, candidates |-> <<>>]

\* A test of the length only, of the array the caller holds.
IsEmptyArgument_LengthOnly(given, stored) ==
    given = "array" /\ Len(stored) = 0

\* !storedFaces || storedFaces.length === 0, for the argument given: the
\* caller's array, null, or nothing (the parameter's default is []).
IsEmptyArgument(given, stored) ==
    \/ given = "null"
    \/ given = "absent"
    \/ given = "array" /\ Len(stored) = 0

verifyFaces(opts, faceData1, faceData2) ==
    LET similarity == Similarity(faceData1.descriptor, faceData2.descriptor)
    IN  [isMatch    |-> AtLeast(similarity, opts.matchThreshold),
         similarity |-> similarity,
         threshold  |-> opts.matchThreshold]

-----------------------------------------------------------------------------
(* The other inputs the model draws from *)

\* The callers that have calls in flight on the one engine.
Callers == {"c1", "c2"}

\* What the external detector may do with a frame.
Detection(d, score) == [descriptor |-> d, box |-> "box", score |-> score]

Raised == [raised |-> TRUE, detections |-> <<>>]

Detected(ds) == [raised |-> FALSE, detections |-> ds]

DetectorOutcomes ==
    { Raised,
      Detected(<<>>),
      Detected(<< Detection(QueryA, (9 * One) \div 10) >>),
      Detected(<< Detection(DescOrth, 0), Detection(QueryA, (9 * One) \div 10) >>) }

\* The outcomes of the matching specification: three more queries.
MatchOutcomes ==
    DetectorOutcomes
    \cup { Detected(<< Detection(d, One) >>) : d \in {DescShort, QueryUnit, QueryEdge} }

\* Date.now(), which registerFace reads twice, and the random suffix of a
\* face id.
Clock == {1, 2}

Tags == {"a"}

\* The argument identifyFace is given for storedFaces.
Givens == {"array", "null", "absent"}

\* A stored face: what registerFace returned under the default options, with
\* the caller's user data attached.  The i-th face of a list has face id i.
StoredFace(i, d) ==
    [faceId     |-> i,
     descriptor |-> d,
     hash       |-> _generateHash(DefaultOptions, d),
     userData   |-> <<"user", i>>]

StoredFrom(ds) == [i \in 1..Len(ds) |-> StoredFace(i, ds[i])]

\* The sequences over S of length at most n.
SeqsUpTo(S, n) == UNION { [1..k -> S] : k \in 0..n }

\* n descriptors: those of head, then copies of fill, then those of tail.
Padded(head, fill, tail, n) ==
    [i \in 1..n |->
        IF i <= Len(head) THEN head[i]
        ELSE IF i > n - Len(tail) THEN tail[i - (n - Len(tail))]
        ELSE fill]

\* Bounds of the lists.
MaxSmall == 2

MaxStored == 6

MaxMixed == 3

MaxOver == 1

\* Lists of the concurrent specification.
SmallLists ==
    { StoredFrom([i \in 1..k |-> IF i % 2 = 1 THEN QueryA ELSE DescHalf]) :
        k \in 0..MaxSmall }

\* Lists around the cutover of _filterByHash: of FilterCutover faces and of up
\* to MaxOver more, a few faces at both ends and one descriptor in between.
LargeLists(ends, fills) ==
    { StoredFrom(Padded(e[1], fill, e[2], FilterCutover + k)) :
        e \in ends, fill \in fills, k \in 0..MaxOver }

MatchLists ==
    { StoredFrom(ds) : ds \in SeqsUpTo({QueryA, DescHalf}, MaxStored) }
    \cup { StoredFrom(ds) : ds \in SeqsUpTo({QueryA, DescShort, DescOrth}, MaxMixed) }
    \cup { StoredFrom(ds) :
                ds \in SeqsUpTo({DescThree, DescNear, DescSmall, DescEdge}, MaxMixed) }
    \cup LargeLists({ << <<DescFar>>, <<QueryA, QueryA>> >> }, {DescFar, DescHalf})
    \cup LargeLists({ << <<DescShort, DescNeg>>, <<DescHalf>> >> }, {DescFar})

FilterLists ==
    LargeLists({ << <<>>, <<>> >>,
                 << <<QueryA>>, <<DescNine>> >>,
                 << <<DescOrth, DescNine>>, <<DescOrth>> >>,
                 << <<DescNine>>, <<QueryA, DescZero>> >> },
               {DescFar, DescHalf})

HashDescriptors ==
    { QueryA, DescHalf, DescOrth, DescNine, DescFar, DescZero, DescNeg, DescShort, <<>> }
    \cup { _createSyntheticFace(r).descriptor : r \in RandomDraws }

\* Values of options.hashBits, which the constructor does not validate.
MaxHashBits == 12

HashBitsChoices == (-MaxHashBits..MaxHashBits) \cup {DefaultHashBits}

ThresholdChoices == { Zero, DefaultMatchThreshold, Literal(One) }

-----------------------------------------------------------------------------
(* The calls *)

\* A caller's frame: the method called (op), where the call stands (pc), the
\* argument given for storedFaces, what the call has read from the detector,
\* Math.random and the clock (env), the engine and the list as the call found
\* them (atCall), how the promise of the detectFaces it awaits has settled
\* (inner), and what the call returned or threw (result).
Idle == [op |-> "none", pc |-> "idle", given |-> "none",
         env |-> Null, atCall |-> Null, inner |-> Null, result |-> Null]

\* A call that has been made and has neither returned nor thrown.
InFlight(frame) == frame.pc \notin {"idle", "done", "threw"}

\* Caller p makes a call: it runs beside the calls in flight, if there are
\* any, and they beside it.
Overlap(p) ==
    LET others == { q \in Callers \ {p} : InFlight(frames[q]) }
    IN  overlapped' = IF others = {} THEN overlapped
                      ELSE overlapped \cup others \cup {p}

\* The engine and the caller's list as a call finds them.
AtCall ==
    [isInitialized |-> isInitialized, options |-> options,
     storedFaces |-> storedFaces]

\* A call that has returned, or thrown, in its first synchronous segment.
Finished(op, pc, given, result) ==
    [op |-> op, pc |-> pc, given |-> given, env |-> Null, atCall |-> AtCall,
     inner |-> Null, result |-> result]

\* The pc of initialize while it awaits the load of Nets[i].
LoadPc == << "loadTiny", "loadLandmarks", "loadRecognition" >>

\* A call suspended at an await.
Suspended(op, pc, given) ==
    [op |-> op, pc |-> pc, given |-> given, env |-> Null, atCall |-> AtCall,
     inner |-> Null, result |-> Null]

\* A detectFaces that invokes the detector whatever isInitialized is.
detectFacesEnter_Unguarded(op, given) ==
    Suspended(op, "awaitDetect", given)

\* The first segment of a call of op, from the call of detectFaces on.
\* detectFaces throws on an engine that is not initialized, which rejects the
\* promise it returns, and otherwise invokes the detector and awaits it.
\* registerFace and identifyFace await that promise: they are suspended even
\* when it is rejected already.
detectFacesEnter(op, given) ==
    IF isInitialized THEN Suspended(op, "awaitDetect", given)
    ELSE IF op = "detectFaces"
    THEN Finished(op, "threw", given, [error |-> InitializeFirst])
    ELSE [Suspended(op, "awaitDetectFaces", given)
            EXCEPT !.inner = [error |-> InitializeFirst]]

CallInitialize(p) ==
    /\ frames[p].pc = "idle"
    /\ frames' = [frames EXCEPT ![p] = Suspended("initialize", LoadPc[1], "none")]
    /\ UNCHANGED <<engine, netsLoaded, storedFaces>>
    /\ Overlap(p)

\* An awaited loadFromUri resolves.
LoadResolve(p) ==
    /\ \E i \in 1..Len(Nets) : frames[p].pc = LoadPc[i]
    /\ LET i == CHOOSE k \in 1..Len(Nets) : frames[p].pc = LoadPc[k]
       IN  /\ netsLoaded' = netsLoaded \cup {Nets[i]}
           /\ IF i < Len(Nets)
              THEN /\ frames' = [frames EXCEPT ![p].pc = LoadPc[i + 1]]
                   /\ UNCHANGED isInitialized
              ELSE /\ isInitialized' = TRUE
                   /\ frames' = [frames EXCEPT ![p].pc = "done", ![p].result = TRUE]
    /\ UNCHANGED <<options, faceDescriptors, faceHashes, storedFaces>>
    /\ UNCHANGED overlapped

\* An awaited loadFromUri rejects: initialize throws.
LoadReject(p) ==
    /\ \E i \in 1..Len(Nets) : frames[p].pc = LoadPc[i]
    /\ frames' = [frames EXCEPT ![p].pc = "threw",
                                ![p].result = [error |-> FailedToLoad]]
    /\ UNCHANGED <<engine, netsLoaded, storedFaces>>
    /\ UNCHANGED overlapped

CallDetectFaces(p) ==
    /\ frames[p].pc = "idle"
    /\ frames' = [frames EXCEPT ![p] = detectFacesEnter("detectFaces", "none")]
    /\ UNCHANGED <<engine, netsLoaded, storedFaces>>
    /\ Overlap(p)

CallRegisterFace(p) ==
    /\ frames[p].pc = "idle"
    /\ frames' = [frames EXCEPT ![p] = detectFacesEnter("registerFace", "none")]
    /\ UNCHANGED <<engine, netsLoaded, storedFaces>>
    /\ Overlap(p)

CallIdentifyFace(p, given) ==
    /\ frames[p].pc = "idle"
    /\ frames' = [frames EXCEPT ![p] =
                    IF IsEmptyArgument(given, storedFaces)
                    THEN Finished("identifyFace", "done", given, NoFaces)
                    ELSE detectFacesEnter("identifyFace", given)]
    /\ UNCHANGED <<engine, netsLoaded, storedFaces>>
    /\ Overlap(p)

\* What a call has read from its environment: the detector's outcome, what
\* Math.random returned if a synthetic face was created, and, filled in by
\* registerFace, the two readings of the clock and the random suffix.
Drawn(outcome, random) ==
    LET synthetic == outcome.raised \/ Len(outcome.detections) = 0
    IN  [outcome   |-> outcome,
         random    |-> IF synthetic THEN random ELSE <<>>,
         now       |-> 0,
         tag       |-> "",
         timestamp |-> 0]

\* The detector answers, or raises: detectFaces runs from its await to its
\* return, which settles the promise the caller, or registerFace or
\* identifyFace, awaits.
DetectorRespond(p, outcome, random) ==
    /\ frames[p].pc = "awaitDetect"
    /\ LET faces == detectFacesResume(outcome, random)
       IN  frames' = [frames EXCEPT ![p] =
                IF frames[p].op = "detectFaces"
                THEN [frames[p] EXCEPT !.pc = "done",
                                       !.env = Drawn(outcome, random),
                                       !.result = faces]
                ELSE [frames[p] EXCEPT !.pc = "awaitDetectFaces",
                                       !.env = Drawn(outcome, random),
                                       !.inner = [faces |-> faces]]]
    /\ UNCHANGED <<engine, netsLoaded, storedFaces>>
    /\ UNCHANGED overlapped

\* The promise of detectFaces that a frame awaits was rejected.
Rejected(frame) == "error" \in DOMAIN frame.inner

\* registerFace resumes after await this.detectFaces(media): it throws what
\* detectFaces threw, or runs to its return.
ResumeRegisterFace(p, now, tag, timestamp) ==
    /\ frames[p].pc = "awaitDetectFaces"
    /\ frames[p].op = "registerFace"
    /\ frames' = [frames EXCEPT ![p] =
            IF Rejected(frames[p])
            THEN [frames[p] EXCEPT !.pc = "threw",
                                   !.inner = Null,
                                   !.result = frames[p].inner]
            ELSE [frames[p] EXCEPT
                    !.pc = "done",
                    !.env = [@ EXCEPT !.now = now, !.tag = tag,
                                      !.timestamp = timestamp],
                    !.inner = Null,
                    !.result = registerFaceResume(options, frames[p].inner.faces,
                                                  now, tag, timestamp)]]
    /\ UNCHANGED <<engine, netsLoaded, storedFaces>>
    /\ UNCHANGED overlapped

\* identifyFace resumes after await this.detectFaces(media): it throws what
\* detectFaces threw, or reads this.options and the array it was given and
\* runs to its return.
ResumeIdentifyFace(p) ==
    /\ frames[p].pc = "awaitDetectFaces"
    /\ frames[p].op = "identifyFace"
    /\ IF Rejected(frames[p])
       THEN /\ frames' = [frames EXCEPT ![p] =
                    [frames[p] EXCEPT !.pc = "threw",
                                      !.inner = Null,
                                      !.result = frames[p].inner]]
            /\ UNCHANGED storedFaces
       ELSE LET ident == identifyFaceResume(options, storedFaces,
                                            frames[p].inner.faces)
            IN  /\ frames' = [frames EXCEPT ![p] =
                        [frames[p] EXCEPT !.pc = "done",
                                          !.inner = Null,
                                          !.result = ident.result]]
                /\ storedFaces' = ident.storedFaces
    /\ UNCHANGED <<engine, netsLoaded>>
    /\ UNCHANGED overlapped

CallVerifyFaces(p, faceData1, faceData2) ==
    /\ frames[p].pc = "idle"
    /\ frames' = [frames EXCEPT ![p] =
                    [Finished("verifyFaces", "done", "none",
                              verifyFaces(options, faceData1, faceData2))
                     EXCEPT !.env = [faceData1 |-> faceData1,
                                     faceData2 |-> faceData2]]]
    /\ UNCHANGED <<engine, netsLoaded, storedFaces>>
    /\ Overlap(p)

\* The caller takes the result, or the error, of its call.
Return(p) ==
    /\ frames[p].pc \in {"done", "threw"}
    /\ frames' = [frames EXCEPT ![p] = Idle]
    /\ UNCHANGED <<engine, netsLoaded, storedFaces>>
    /\ overlapped' = overlapped \ {p}

\* Direct calls of the private helpers.
CallGenerateHash(p, descriptor) ==
    /\ frames[p].pc = "idle"
    /\ frames' = [frames EXCEPT ![p] =
                    [Finished("_generateHash", "done", "none",
                              _generateHash(options, descriptor))
                     EXCEPT !.env = [descriptor |-> descriptor], !.atCall = Null]]
    /\ UNCHANGED <<engine, netsLoaded, storedFaces>>
    /\ Overlap(p)

CallFilterByHash(p, queryHash) ==
    /\ frames[p].pc = "idle"
    /\ frames' = [frames EXCEPT ![p] =
                    [Finished("_filterByHash", "done", "none",
                              _filterByHash(storedFaces, queryHash, HammingThreshold))
                     EXCEPT !.env = [queryHash |-> queryHash], !.atCall = Null]]
    /\ UNCHANGED <<engine, netsLoaded, storedFaces>>
    /\ Overlap(p)

-----------------------------------------------------------------------------
(* The specifications *)

\* The faces verifyFaces is given.
VerifyFaces ==
    { StoredFace(1, d) : d \in {DescNeg, QueryEdge, DescEdge} }

\* Spec: callers use one engine concurrently, from its construction on.
Init ==
    /\ options \in { Construct(given) :
                        given \in { <<>>, [matchThreshold |-> Zero] } }
    /\ isInitialized = FALSE
    /\ faceDescriptors = <<>>
    /\ faceHashes = <<>>
    /\ netsLoaded = {}
    /\ storedFaces \in SmallLists
    /\ frames = [p \in Callers |-> Idle]
    /\ overlapped = {}

Next ==
    \E p \in Callers :
        \/ CallInitialize(p)
        \/ LoadResolve(p)
        \/ LoadReject(p)
        \/ CallDetectFaces(p)
        \/ CallRegisterFace(p)
        \/ \E given \in Givens : CallIdentifyFace(p, given)
        \/ \E outcome \in DetectorOutcomes, r \in RandomDraws :
                DetectorRespond(p, outcome, r)
        \/ \E now \in Clock, tag \in Tags, timestamp \in Clock :
                ResumeRegisterFace(p, now, tag, timestamp)
        \/ ResumeIdentifyFace(p)
        \/ \E f1 \in VerifyFaces, f2 \in VerifyFaces : CallVerifyFaces(p, f1, f2)
        \/ Return(p)

Spec == Init /\ [][Next]_vars

\* SpecMatch: identifyFace on an initialized engine, over the lists and the
\* thresholds the matching claims are about.
InitMatch ==
    /\ options \in { Construct([matchThreshold |-> t]) : t \in ThresholdChoices }
    /\ isInitialized = TRUE
    /\ faceDescriptors = <<>>
    /\ faceHashes = <<>>
    /\ netsLoaded = { Nets[i] : i \in 1..Len(Nets) }
    /\ storedFaces \in MatchLists
    /\ frames = [p \in Callers |-> Idle]
    /\ overlapped = {}

NextMatch ==
    \/ \E given \in Givens : CallIdentifyFace("c1", given)
    \/ \E outcome \in MatchOutcomes, r \in RandomDraws :
            DetectorRespond("c1", outcome, r)
    \/ ResumeIdentifyFace("c1")
    \/ Return("c1")

SpecMatch == InitMatch /\ [][NextMatch]_vars

\* SpecHash: _generateHash applied to drawn descriptors, under drawn hashBits.
InitHash ==
    /\ options \in { Construct([hashBits |-> b]) : b \in HashBitsChoices }
    /\ isInitialized = FALSE
    /\ faceDescriptors = <<>>
    /\ faceHashes = <<>>
    /\ netsLoaded = {}
    /\ storedFaces = <<>>
    /\ frames = [p \in Callers |-> Idle]
    /\ overlapped = {}

NextHash ==
    \/ \E d \in HashDescriptors : CallGenerateHash("c1", d)
    \/ Return("c1")

SpecHash == InitHash /\ [][NextHash]_vars

\* SpecFilter: _filterByHash applied to lists around its cutover.
InitFilter ==
    /\ options \in { Construct([hashBits |-> b]) : b \in {4, DefaultHashBits} }
    /\ isInitialized = FALSE
    /\ faceDescriptors = <<>>
    /\ faceHashes = <<>>
    /\ netsLoaded = {}
    /\ storedFaces \in FilterLists
    /\ frames = [p \in Callers |-> Idle]
    /\ overlapped = {}

NextFilter ==
    \/ \E d \in HashDescriptors :
            CallFilterByHash("c1", _generateHash(options, d))
    \/ Return("c1")

SpecFilter == InitFilter /\ [][NextFilter]_vars

-----------------------------------------------------------------------------
(* What the claims about identifyFace speak of, stated from the stored list  *)
(* and the returned object rather than from the loop.                        *)

\* Caller p holds the object identifyFace returned for a non-empty list.
Identified(p) ==
    /\ frames[p].op = "identifyFace"
    /\ frames[p].pc = "done"
    /\ frames[p].env # Null

\* The number of positions, among the first min(len, len), where two hashes differ.
HashDifference(h1, h2) ==
    Cardinality({ i \in 1..Min(Len(h1), Len(h2)) : h1[i] # h2[i] })

\* The query of caller p's call: the face identifyFace took from the detector.
QueryOf(p) == frames[p].result.currentFace

\* The positions in the stored list of the faces that survive the hash filter.
Survivors(p) ==
    IF Len(storedFaces) <= FilterCutover THEN 1..Len(storedFaces)
    ELSE { i \in 1..Len(storedFaces) :
            HashDifference(storedFaces[i].hash, QueryOf(p).hash) <= HammingThreshold }

\* The similarity of the query to every stored face, by position (a sequence
\* whose elements are all evaluated once).
Similarities(p) ==
    SelectSeq([i \in 1..Len(storedFaces) |->
                  Similarity(QueryOf(p).descriptor, storedFaces[i].descriptor)],
              LAMBDA x : TRUE)

\* The match candidate of the stored face at position i, of similarity sim.
CandidateAt(i, sim) ==
    [faceId     |-> storedFaces[i].faceId,
     similarity |-> sim,
     data       |-> storedFaces[i].userData]

\* The maximum of the similarities sims over the positions surv, 0 for none.
MaxAmong(sims, surv) ==
    LET vals == { sims[i] : i \in surv }
    IN  IF vals = {} THEN Zero
        ELSE CHOOSE m \in vals : \A x \in vals : AtLeast(m, x)

\* The positions of surv that precede position j when surv is sorted by
\* similarity, descending, equal similarities in the order of the stored list.
Before(sims, surv, j) ==
    { i \in surv : Greater(sims[i], sims[j]) \/ (sims[i] = sims[j] /\ i < j) }

\* C1: identifyFace on a non-empty list returns as bestMatch a candidate whose
\* similarity is the maximum over the survivors if and only if that maximum is
\* >= matchThreshold (0 included), returns null otherwise, and matchFound is
\* true exactly when bestMatch is not null.
C1_ThresholdGating ==
    \A p \in Callers : Identified(p) =>
        LET r    == frames[p].result
            surv == Survivors(p)
            sims == Similarities(p)
            m    == MaxAmong(sims, surv)
        IN  /\ r.matchFound = (r.bestMatch # Null)
            /\ IF AtLeast(m, options.matchThreshold)
               THEN /\ r.bestMatch # Null
                    /\ r.bestMatch.similarity = m
                    /\ \E i \in surv : r.bestMatch = CandidateAt(i, sims[i])
               ELSE r.bestMatch = Null

\* C1's case at the threshold itself: the maximum over two faces or more is
\* 0.6, the threshold, and the match is found.
C1_WitnessAtThreshold ==
    \E p \in Callers :
        /\ Identified(p)
        /\ options.matchThreshold = DefaultMatchThreshold
        /\ frames[p].result.similarity = DefaultMatchThreshold
        /\ frames[p].result.matchFound
        /\ Len(storedFaces) > 1

\* C1's case just above a threshold of 0: a maximum of 0.004999937501171851.
C1_WitnessSmall ==
    \E p \in Callers :
        /\ Identified(p)
        /\ options.matchThreshold = Zero
        /\ frames[p].result.similarity = Similarity(QueryUnit, DescSmall)
        /\ Greater(frames[p].result.similarity, Zero)
        /\ frames[p].result.matchFound

\* C2: the similarity identifyFace returns for a non-empty list is the maximum
\* similarity over the survivors of the hash filter, 0 when there are none,
\* whether or not it reaches matchThreshold; below the threshold matchFound is
\* false and bestMatch is null.
C2_SimilarityIsGlobalMax ==
    \A p \in Callers : Identified(p) =>
        LET r == frames[p].result
            m == MaxAmong(Similarities(p), Survivors(p))
        IN  /\ r.similarity = m
            /\ Less(m, options.matchThreshold) =>
                  /\ r.matchFound = FALSE
                  /\ r.bestMatch = Null

\* C2's case: a maximum above 0 and below the threshold is reported, with no
\* match, after the hash filter dropped some of the stored faces.
C2_Witness ==
    \E p \in Callers :
        /\ Identified(p)
        /\ Greater(frames[p].result.similarity, Zero)
        /\ Less(frames[p].result.similarity, options.matchThreshold)
        /\ frames[p].result.matchFound = FALSE
        /\ Survivors(p) # 1..Len(storedFaces)

\* C2's case just below the threshold: the maximum is 0.5999999999999999, the
\* double next below 0.6, and no match is found.
C2_WitnessJustBelow ==
    \E p \in Callers :
        /\ Identified(p)
        /\ options.matchThreshold = DefaultMatchThreshold
        /\ frames[p].result.similarity = Similarity(QueryEdge, DescEdge)
        /\ Less(frames[p].result.similarity, DefaultMatchThreshold)
        /\ frames[p].result.matchFound = FALSE

\* C3: candidates holds min(5, number of survivors) entries: the survivors of
\* the highest similarities, in order of non-increasing similarity, survivors
\* of equal similarity in the order of the stored list.
C3_TopCandidates ==
    \A p \in Callers : Identified(p) =>
        LET cands == frames[p].result.candidates
            surv  == Survivors(p)
            sims  == Similarities(p)
        IN  /\ Len(cands) = Min(TopCandidates, Cardinality(surv))
            /\ \A k \in 1..Len(cands) :
                  LET j == cands[k].faceId
                  IN  /\ j \in surv
                      /\ cands[k] = CandidateAt(j, sims[j])
                      /\ Cardinality(Before(sims, surv, j)) = k - 1

\* C3's case: more survivors than the cap, candidates of different similarity
\* and two candidates of equal similarity.
C3_Witness ==
    \E p \in Callers :
        /\ Identified(p)
        /\ Cardinality(Survivors(p)) > TopCandidates
        /\ LET cands == frames[p].result.candidates
           IN  /\ Len(cands) = TopCandidates
               /\ Greater(cands[1].similarity, cands[TopCandidates].similarity)
               /\ \E k \in 1..(TopCandidates - 1) :
                     /\ cands[k].similarity = cands[k + 1].similarity
                     /\ cands[k].faceId < cands[k + 1].faceId

\* C3's other case: two similarities within a hundredth of each other,
\* 0.6012776980498331 and 0.6, are ordered, against the order of the list.
C3_WitnessNear ==
    \E p \in Callers :
        /\ Identified(p)
        /\ LET cands == frames[p].result.candidates
           IN  \E k \in 1..(Len(cands) - 1) :
                  /\ cands[k].similarity = Similarity(QueryUnit, DescNear)
                  /\ cands[k + 1].similarity = Similarity(QueryUnit, DescThree)
                  /\ Greater(cands[k].similarity, cands[k + 1].similarity)
                  /\ cands[k].faceId > cands[k + 1].faceId

\* C8: when several survivors have the maximum similarity and the maximum is
\* >= matchThreshold, bestMatch is the first of them in the survivors' order.
C8_FirstWins ==
    \A p \in Callers : Identified(p) =>
        LET surv  == Survivors(p)
            sims  == Similarities(p)
            m     == MaxAmong(sims, surv)
            atMax == { i \in surv : sims[i] = m }
        IN  (Cardinality(atMax) > 1 /\ AtLeast(m, options.matchThreshold)) =>
                LET first == CHOOSE i \in atMax : \A j \in atMax : i <= j
                IN  frames[p].result.bestMatch = CandidateAt(first, sims[first])

-----------------------------------------------------------------------------
(* The claims about the private helpers *)

\* Caller p holds what a direct call of the helper op returned.
Helped(p, op) ==
    /\ frames[p].op = op
    /\ frames[p].pc = "done"

\* C7: for every descriptor d and every integer hashBits, zero and negative
\* values included, the hash _generateHash produces has exactly
\* min(hashBits, len(d)) bits.
C7_HashLength ==
    \A p \in Callers : Helped(p, "_generateHash") =>
        Len(frames[p].result) = Min(options.hashBits, Len(frames[p].env.descriptor))

\* C7, amended: the hash has min(hashBits, len(d)) bits when hashBits >= 0 and
\* max(0, len(d) + hashBits) bits when hashBits < 0; every bit is "0" or "1".
C7_HashLengthAmended ==
    \A p \in Callers : Helped(p, "_generateHash") =>
        LET d == frames[p].env.descriptor
            h == frames[p].result
        IN  /\ Len(h) = IF options.hashBits >= 0
                        THEN Min(options.hashBits, Len(d))
                        ELSE Max(0, Len(d) + options.hashBits)
            /\ \A i \in 1..Len(h) : h[i] \in {"0", "1"}

\* C7's case: under a negative hashBits a hash of some bits, fewer than the
\* descriptor has components.
C7_Witness ==
    \E p \in Callers :
        /\ Helped(p, "_generateHash")
        /\ options.hashBits < 0
        /\ Len(frames[p].result) > 0
        /\ Len(frames[p].result) < Len(frames[p].env.descriptor)

\* C6: _filterByHash returns the stored faces in their order: all of them when
\* there are at most 1000, and otherwise exactly those whose hash differs from
\* the query hash in at most 8 of the first min(len, len) positions.
C6_FilterByHash ==
    \A p \in Callers : Helped(p, "_filterByHash") =>
        LET r    == frames[p].result
            q    == frames[p].env.queryHash
            keep == { i \in 1..Len(storedFaces) :
                        HashDifference(storedFaces[i].hash, q) <= HammingThreshold }
        IN  IF Len(storedFaces) <= FilterCutover
            THEN r = storedFaces
            ELSE /\ Len(r) = Cardinality(keep)
                 /\ \A k \in 1..Len(r) :
                        /\ r[k].faceId \in keep
                        /\ r[k] = storedFaces[r[k].faceId]
                 /\ \A k \in 1..(Len(r) - 1) : r[k].faceId < r[k + 1].faceId

\* C6's case: of more than 1000 faces some are kept and some dropped; a kept
\* face is at distance exactly 8, a dropped one at distance 9, and a kept face
\* comes after a dropped one in the stored list.
C6_Witness ==
    \E p \in Callers :
        /\ Helped(p, "_filterByHash")
        /\ Len(storedFaces) > FilterCutover
        /\ LET r == frames[p].result
               q == frames[p].env.queryHash
           IN  /\ Len(r) > 1
               /\ Len(r) < Len(storedFaces)
               /\ \E k \in 1..Len(r) :
                     HashDifference(r[k].hash, q) = HammingThreshold
               /\ \E i \in 1..Len(storedFaces) :
                     /\ HashDifference(storedFaces[i].hash, q) = HammingThreshold + 1
                     /\ \E k \in 1..Len(r) : r[k].faceId > i

\* C6's other case: a list of exactly 1000 faces is returned whole although
\* it holds faces farther than 8 from the query hash.
C6_WitnessAtCutover ==
    \E p \in Callers :
        /\ Helped(p, "_filterByHash")
        /\ Len(storedFaces) = FilterCutover
        /\ frames[p].result = storedFaces
        /\ \E i \in 1..Len(storedFaces) :
              HashDifference(storedFaces[i].hash, frames[p].env.queryHash)
                  > HammingThreshold

-----------------------------------------------------------------------------
(* The claims about the calls on one engine *)

\* Caller p called identifyFace with an empty list, with null or with nothing.
CalledWithoutFaces(p) ==
    /\ frames[p].op = "identifyFace"
    /\ \/ frames[p].given \in {"null", "absent"}
       \/ Len(frames[p].atCall.storedFaces) = 0

\* C4: given an empty or absent list, identifyFace returns matchFound false,
\* bestMatch null and no candidates at once: it does not invoke the detector,
\* computes nothing and raises no error, whether the engine is initialized or
\* not.
C4_EmptyReturnsAtOnce ==
    \A p \in Callers : CalledWithoutFaces(p) =>
        /\ frames[p].pc = "done"
        /\ frames[p].env = Null
        /\ frames[p].result =
              [matchFound |-> FALSE, bestMatch |-> Null, candidates |-> <<>>]

\* C4's case: the call was made on an engine that was not initialized, with
\* null or with nothing.
C4_Witness ==
    \E p \in Callers :
        /\ CalledWithoutFaces(p)
        /\ frames[p].given \in {"null", "absent"}
        /\ ~frames[p].atCall.isInitialized
        /\ frames[p].result.matchFound = FALSE

\* C4's other case: the call was made on an initialized engine, with the
\* caller's empty array.
C4_WitnessInitialized ==
    \E p \in Callers :
        /\ CalledWithoutFaces(p)
        /\ frames[p].given = "array"
        /\ frames[p].atCall.isInitialized
        /\ frames[p].result.matchFound = FALSE

\* Caller p's call of detectFaces has ended.
DetectFacesEnded(p) ==
    /\ frames[p].op = "detectFaces"
    /\ frames[p].pc \in {"done", "threw"}

\* What C5 says of a call of detectFaces that has ended: it returned at least
\* one face, each with a descriptor and a confidence, and when the detector
\* raised or found no face, exactly one synthetic face of confidence 0.8.
ReturnedFaces(p) ==
    /\ frames[p].pc = "done"
    /\ LET faces == frames[p].result
           out   == frames[p].env.outcome
       IN  /\ Len(faces) >= 1
           /\ \A i \in 1..Len(faces) :
                 /\ {"descriptor", "confidence"} \subseteq DOMAIN faces[i]
                 /\ faces[i].confidence \in 0..One
           /\ (out.raised \/ Len(out.detections) = 0) =>
                 /\ Len(faces) = 1
                 /\ Len(faces[1].descriptor) = 128
                 /\ \A i \in 1..128 :
                       /\ faces[1].descriptor[i] = frames[p].env.random[i] + 2
                       /\ faces[1].descriptor[i] \in 2..5
                 /\ faces[1].confidence = (8 * One) \div 10

\* C5: every call of detectFaces, whatever the detector does, returns at
\* least one face with a descriptor and a confidence and surfaces no error; on
\* a detector error or zero detections the result is exactly one synthetic
\* face of confidence 0.8.
C5_NeverFails ==
    \A p \in Callers : DetectFacesEnded(p) => ReturnedFaces(p)

\* C5, amended: the same of every call of detectFaces made on an initialized
\* engine; a call made on an engine that is not initialized throws
\* 'Initialize engine first'.
C5_NeverFailsOnceInitialized ==
    \A p \in Callers : DetectFacesEnded(p) =>
        IF frames[p].atCall.isInitialized
        THEN ReturnedFaces(p)
        ELSE /\ frames[p].pc = "threw"
             /\ frames[p].result = [error |-> "Initialize engine first"]

\* C5's case: the detector raised, and detectFaces returned a synthetic face.
C5_Witness ==
    \E p \in Callers :
        /\ DetectFacesEnded(p)
        /\ frames[p].pc = "done"
        /\ frames[p].env.outcome.raised
        /\ Len(frames[p].result) = 1

\* C5's other case: the detector found no face.
C5_WitnessNoDetections ==
    \E p \in Callers :
        /\ DetectFacesEnded(p)
        /\ frames[p].pc = "done"
        /\ ~frames[p].env.outcome.raised
        /\ Len(frames[p].env.outcome.detections) = 0
        /\ Len(frames[p].result) = 1

\* Caller p's call was made on an initialized engine.
OnInitialized(p) ==
    /\ frames[p].atCall # Null
    /\ frames[p].atCall.isInitialized

\* Caller p's call is one of those C9 is about, made on an initialized
\* engine, and has returned.
Returned(p) ==
    /\ OnInitialized(p)
    /\ frames[p].op \in {"identifyFace", "registerFace", "verifyFaces"}
    /\ frames[p].pc = "done"

\* What the detector gave the call of a frame, or, of a call that does not
\* reach the detector, what the call was given.
DetectorOutput(frame) ==
    IF frame.env # Null /\ "outcome" \in DOMAIN frame.env
    THEN frame.env.outcome
    ELSE frame.env

\* The calls of p and q are the same call, made on the same engine and list,
\* and the detector gave both the same.
SameCall(p, q) ==
    /\ Returned(p)
    /\ Returned(q)
    /\ frames[p].op = frames[q].op
    /\ frames[p].given = frames[q].given
    /\ frames[p].atCall = frames[q].atCall
    /\ DetectorOutput(frames[p]) = DetectorOutput(frames[q])

\* No call has changed what caller p's call found: the caller's list and its
\* faces, and the engine's fields.
Untouched(p) ==
    /\ storedFaces = frames[p].atCall.storedFaces
    /\ options = frames[p].atCall.options
    /\ isInitialized
    /\ faceDescriptors = <<>>
    /\ faceHashes = <<>>

\* C9: under any interleaving of identifyFace, registerFace and verifyFaces
\* calls on one initialized engine, no call changes the caller's list of
\* stored faces, a stored face, or the engine's options, isInitialized,
\* faceDescriptors and faceHashes, and each call returns what it would return
\* if it ran alone with the same detector output: two calls that differ only
\* in what ran beside them return the same.
C9_CallsDoNotInterfere ==
    \A p \in Callers : OnInitialized(p) =>
        /\ Untouched(p)
        /\ \A q \in Callers :
                SameCall(p, q) => frames[p].result = frames[q].result

\* C9, amended: the same of two calls to which, besides the detector's
\* output, Math.random and Date.now gave the same: registerFace makes the
\* face id and the timestamp of them, and detectFaces a synthetic descriptor.
C9_CallsDoNotInterfereGivenDraws ==
    \A p \in Callers : OnInitialized(p) =>
        /\ Untouched(p)
        /\ \A q \in Callers :
                (SameCall(p, q) /\ frames[p].env = frames[q].env) =>
                    frames[p].result = frames[q].result

\* C9's case: the same identifyFace, of a list of two different faces, has
\* returned the same match to a caller whose call ran alone and to a caller
\* whose call was suspended while the other caller made calls.
C9_Witness ==
    \E p, q \in Callers :
        /\ SameCall(p, q)
        /\ frames[p].env = frames[q].env
        /\ p \notin overlapped
        /\ q \in overlapped
        /\ frames[p].op = "identifyFace"
        /\ frames[p].result.matchFound
        /\ frames[p].result = frames[q].result
        /\ Len(storedFaces) > 1
        /\ storedFaces[1].descriptor # storedFaces[2].descriptor

\* C9's case of registerFace: one call ran alone, the other did not, and the
\* detector, Math.random and the clock gave both the same.
C9_WitnessRegister ==
    \E p, q \in Callers :
        /\ SameCall(p, q)
        /\ frames[p].env = frames[q].env
        /\ p \notin overlapped
        /\ q \in overlapped
        /\ frames[p].op = "registerFace"
        /\ frames[p].result = frames[q].result

\* C9's other case: a verifyFaces has returned while the other caller's
\* identifyFace awaits the detector.
C9_WitnessVerify ==
    \E p, q \in Callers :
        /\ OnInitialized(p)
        /\ frames[p].op = "verifyFaces"
        /\ frames[p].pc = "done"
        /\ frames[q].op = "identifyFace"
        /\ frames[q].pc = "awaitDetect"

\* Some initialize call completes its third load in this step.
InitializeCompletes ==
    \E p \in Callers :
        /\ frames[p].op = "initialize"
        /\ frames[p].pc = "loadRecognition"
        /\ frames'[p].pc = "done"
        /\ netsLoaded' =
              {"tinyFaceDetector", "faceLandmark68Net", "faceRecognitionNet"}

\* Caller p's call delegates to detectFaces: detectFaces, registerFace, or
\* identifyFace with a list that is not empty.
Delegates(p) ==
    \/ frames[p].op \in {"detectFaces", "registerFace"}
    \/ /\ frames[p].op = "identifyFace"
       /\ frames[p].given = "array"
       /\ Len(frames[p].atCall.storedFaces) > 0

\* C10: isInitialized is false after construction, becomes true only when an
\* initialize call has loaded all three models, stays as it is when initialize
\* fails, which raises an error, and never returns to false; the detector is
\* never invoked while isInitialized is false, because detectFaces, and so
\* registerFace and identifyFace with a non-empty list, raises 'Initialize
\* engine first' before delegating.
C10_Lifecycle ==
    /\ ~isInitialized
    /\ [][ (isInitialized' # isInitialized) =>
                (~isInitialized /\ isInitialized' /\ InitializeCompletes) ]_vars
    /\ [][ \A p \in Callers :
                (frames[p].op = "initialize" /\ frames[p].pc # "threw"
                    /\ frames'[p].pc = "threw") =>
                  /\ isInitialized' = isInitialized
                  /\ frames'[p].result = [error |-> "Face engine failed to load"] ]_vars
    /\ [][ isInitialized => isInitialized' ]_vars
    /\ [][ \A p \in Callers :
                (frames[p].pc # "awaitDetect" /\ frames'[p].pc = "awaitDetect") =>
                    isInitialized ]_vars
    /\ [][ \A p \in Callers :
                (frames[p].pc = "awaitDetectFaces" /\ frames'[p] # frames[p]
                    /\ frames[p].inner = [error |-> "Initialize engine first"]) =>
                  /\ frames'[p].pc = "threw"
                  /\ frames'[p].result = [error |-> "Initialize engine first"] ]_vars
    /\ [](\A p \in Callers :
            /\ (frames[p].env # Null /\ Delegates(p)) =>
                    frames[p].atCall.isInitialized
            /\ (frames[p].pc # "idle" /\ Delegates(p)
                    /\ ~frames[p].atCall.isInitialized) =>
                  /\ frames[p].env = Null
                  /\ \/ /\ frames[p].pc = "threw"
                        /\ frames[p].result = [error |-> "Initialize engine first"]
                     \/ /\ frames[p].pc = "awaitDetectFaces"
                        /\ frames[p].op # "detectFaces"
                        /\ frames[p].inner = [error |-> "Initialize engine first"])

\* C10's case: an initialize call has completed and the engine is
\* initialized, while another caller holds the error of an identifyFace it
\* made before.
C10_Witness ==
    \E p, q \in Callers :
        /\ frames[p].op = "initialize"
        /\ frames[p].pc = "done"
        /\ isInitialized
        /\ frames[q].op = "identifyFace"
        /\ frames[q].pc = "threw"
        /\ ~frames[q].atCall.isInitialized

\* C10's case of a race: the engine has been initialized since a caller
\* called identifyFace, whose rejection the caller has yet to receive.
C10_WitnessRace ==
    \E q \in Callers :
        /\ isInitialized
        /\ frames[q].op = "identifyFace"
        /\ frames[q].pc = "awaitDetectFaces"
        /\ ~frames[q].atCall.isInitialized

\* C10's other case: an initialize call has failed and the engine is not
\* initialized.
C10_WitnessFailed ==
    \E p \in Callers :
        /\ frames[p].op = "initialize"
        /\ frames[p].pc = "threw"
        /\ ~isInitialized

====
